---- MODULE Spec2Model ----
(***************************************************************************)
(* The Dashboard activity tracker (pages/Dashboard.jsx): React state, the  *)
(* effects' timers and listeners, and the requests in flight to the        *)
(* backend.  Time is explicit, in milliseconds; every timer holds the time *)
(* left until it fires and fires before the clock moves past it.  A React  *)
(* effect is re-run (cleanup, then body) exactly when one of its           *)
(* dependencies changes; a useCallback closure keeps the state values of   *)
(* the render that created it.                                             *)
(***************************************************************************)
EXTENDS Integers, Sequences, FiniteSets, TLC

\* ------------------------------------------------------------- constants
ScrollDelay == 100
MoveDelay == 500
MoveThreshold == 5
ActiveInterval == 1000
IdleInterval == 5000
IdleLimit == 5
IdleStep == 5
AnalysisInterval == 10000
AlertDuration == 5000

\* An unset timer handle (let scrollTimeout; a cleared interval).
Off == -1
\* useState(null): no session identifier.
NoSession == 0
\* useState(null): no analysis received yet.
NoAnalysis == [is_drifting |-> FALSE, poll |-> 0, session |-> NoSession]

\* --------------------------------------------------------------- bounds
\* Presses of the Start/Stop button, and user events of each kind.
MaxPresses == 2
MaxScrolls == 2
MaxClicks == 2
MaxMoves == 6
MaxKeys == 1
MaxFlips == 2
\* How late (ms) the idle interval's callback may read the clock.
MaxLate == 1
\* Seconds of tracked time explored by each specification.
MaxActiveTime == 1
MaxScrollTime == 1
MaxClickTime == 1
MaxMoveTime == 1
MaxIdleTime == 6
MaxAlertTime == 21
MaxLifeTime == 2
MaxVisibleTime == 1
MaxMetricsTime == 6
MaxFailTime == 11

\* The clock advances in steps of the shortest delay of the program.
TimeStep == ScrollDelay

EventTypes == {"scroll", "click", "mousemove", "idle", "visibility"}

VARIABLES
    sessionId,      \* useState: the session identifier, NoSession for null
    isTracking,     \* useState
    metrics,        \* useState: the metrics snapshot
    driftAnalysis,  \* useState: the last analysis received
    showAlert,      \* useState
    hidden,         \* document.hidden
    activeTimer,    \* ms until the 1 s interval fires, Off when cleared
    scrollTimeout,  \* ms until the scroll debounce fires, Off when unset
    moveTimeout,    \* ms until the mouse-move quiet period ends
    moveCount,      \* the mouse-move effect's accumulator
    idleTimer,      \* ms until the idle interval fires
    idleElapsed,    \* Date.now() - idleStartTime, in ms (saturating)
    analysisTimer,  \* ms until the analysis interval fires
    alertTimers,    \* pending setTimeout(() => setShowAlert(false)), ms left each
    startReqs,      \* POST /session/start requests in flight
    nextId,         \* the identifier the backend gives the next session
    deleteReqs,     \* DELETE /session/{id} in flight: the identifiers
    polls,          \* GET /tracking/analysis in flight: [session, alertSeen, poll]
    pollsIssued,    \* number of analysis requests issued
    eventReqs,      \* POST /tracking/event requests in flight
    sent,           \* per event type, the number of reports issued
    lastEvent,      \* the body of the last report issued
    used,           \* user events so far, per kind (bounded exploration)
    lastOp,         \* history: the handler that ran last
    stopInvoked,    \* history: Stop pressed and Start not pressed since
    activity,       \* history: a mouse move or key press since the last idle sample
    sincePoll,      \* history: ms since the last analysis request (or since polling began)
    alertAge,       \* history: ms the alert banner has been showing
    deleteAsked,    \* history: the sessions whose DELETE has been issued
    sinceStart,     \* history: 1 s ticks since tracking last became active
    quietMoves,     \* history: mouse moves the listener has seen since the last
                    \* quiet-period expiry
    sinceTrigger    \* history: ms since the last setShowAlert(true), while set

ui == <<sessionId, isTracking, showAlert>>
timers == <<activeTimer, scrollTimeout, moveTimeout, moveCount, idleTimer,
            idleElapsed, analysisTimer>>
net == <<startReqs, nextId, deleteReqs, polls, pollsIssued, eventReqs, sent, lastEvent>>
hist == <<used, lastOp, stopInvoked, activity, sincePoll, alertAge, deleteAsked,
          sinceStart, quietMoves, sinceTrigger>>
vars == <<sessionId, isTracking, metrics, driftAnalysis, showAlert, hidden, activeTimer,
          scrollTimeout, moveTimeout, moveCount, idleTimer, idleElapsed,
          analysisTimer, alertTimers, startReqs, nextId, deleteReqs, polls,
          pollsIssued, eventReqs, sent, lastEvent, used, lastOp, stopInvoked,
          activity, sincePoll, alertAge, deleteAsked, sinceStart, quietMoves,
          sinceTrigger>>

\* ------------------------------------------------------------- helpers
Min(a, b) == IF a < b THEN a ELSE b

\* The banner's render condition.
AlertShown(alert, analysis) == alert /\ analysis # NoAnalysis /\ analysis.is_drifting

RemoveAt(s, i) == SubSeq(s, 1, i - 1) \o SubSeq(s, i + 1, Len(s))

NoEvent == [type |-> "none", session |-> NoSession, data |-> 0]

Init ==
    /\ sessionId = NoSession
    /\ isTracking = FALSE
    /\ metrics = [activeTime |-> 0, scrolls |-> 0, clicks |-> 0,
                  mouseMovements |-> 0, idleTime |-> 0, tabCount |-> 1]
    /\ driftAnalysis = NoAnalysis
    /\ showAlert = FALSE
    /\ hidden = FALSE
    /\ activeTimer = Off
    /\ scrollTimeout = Off
    /\ moveTimeout = Off
    /\ moveCount = 0
    /\ idleTimer = Off
    /\ idleElapsed = 0
    /\ analysisTimer = Off
    /\ alertTimers = <<>>
    /\ startReqs = 1
    /\ nextId = 1
    /\ deleteReqs = <<>>
    /\ polls = <<>>
    /\ pollsIssued = 0
    /\ eventReqs = 0
    /\ sent = [t \in EventTypes |-> 0]
    /\ lastEvent = NoEvent
    /\ used = [starts |-> 0, stops |-> 0, scrolls |-> 0, clicks |-> 0,
               moves |-> 0, keys |-> 0, flips |-> 0]
    /\ lastOp = "mount"
    /\ stopInvoked = FALSE
    /\ activity = FALSE
    /\ sincePoll = 0
    /\ alertAge = 0
    /\ deleteAsked = {}
    /\ sinceStart = 0
    /\ quietMoves = 0
    /\ sinceTrigger = 0

\* ------------------------------------------------------------- effects
\* useEffect(..., [isTracking]): the active-time interval after a render in
\* which tracking is `tr`.
ActiveTimeEffect(tr) ==
    IF tr = isTracking THEN activeTimer
    ELSE IF tr THEN ActiveInterval ELSE Off

\* The effects on [isTracking, logEvent] re-run when tracking or the
\* session identifier (logEvent's dependency) changes.
SignalDepsChanged(tr, sid) == tr # isTracking \/ sid # sessionId

\* The analysis effect depends on [isTracking, sessionId, getDriftAnalysis],
\* and getDriftAnalysis on [sessionId, showAlert].
AnalysisDepsChanged(tr, sid, al) ==
    tr # isTracking \/ sid # sessionId \/ al # showAlert

AnalysisEffect(tr, sid, al) ==
    IF AnalysisDepsChanged(tr, sid, al)
    THEN IF tr /\ sid # NoSession THEN AnalysisInterval ELSE Off
    ELSE analysisTimer

\* A render in which tracking, the session and the alert flag take the
\* given values: the state is set and every effect whose dependencies
\* changed is cleaned up and run again.
Render(tr, sid, al) ==
    /\ isTracking' = tr
    /\ sessionId' = sid
    /\ showAlert' = al
    /\ activeTimer' = ActiveTimeEffect(tr)
    /\ scrollTimeout' = IF SignalDepsChanged(tr, sid) THEN Off ELSE scrollTimeout
    /\ moveTimeout' = IF SignalDepsChanged(tr, sid) THEN Off ELSE moveTimeout
    /\ moveCount' = IF SignalDepsChanged(tr, sid) THEN 0 ELSE moveCount
    /\ idleTimer' = IF SignalDepsChanged(tr, sid)
                    THEN IF tr THEN IdleInterval ELSE Off
                    ELSE idleTimer
    /\ idleElapsed' = IF SignalDepsChanged(tr, sid) THEN 0 ELSE idleElapsed
    /\ analysisTimer' = AnalysisEffect(tr, sid, al)

\* logEvent(eventType, data): one POST /tracking/event, unless no session.
LogEvent(type, data) ==
    IF sessionId = NoSession
    THEN UNCHANGED <<eventReqs, sent, lastEvent>>
    ELSE /\ eventReqs' = eventReqs + 1
         /\ sent' = [sent EXCEPT ![type] = @ + 1]
         /\ lastEvent' = [type |-> type, session |-> sessionId, data |-> data]

\* ------------------------------------------------------------- history
Polling(tr, sid) == tr /\ sid # NoSession

\* The history variables after handler `op` (the clock did not move), and
\* document.hidden, which flips at a visibilitychange event and at no other.
History(op) ==
    /\ lastOp' = op
    /\ hidden' = IF op = "visibility" THEN ~hidden ELSE hidden
    /\ deleteAsked' = IF op = "stop" /\ sessionId # NoSession
                      THEN deleteAsked \cup {sessionId} ELSE deleteAsked
    /\ sinceStart' = IF isTracking' /\ ~isTracking THEN 0
                     ELSE IF op = "activeTick" THEN sinceStart + 1 ELSE sinceStart
    /\ quietMoves' = IF op = "mousemove" THEN quietMoves + 1
                     ELSE IF op = "moveTimeout"
                             \/ SignalDepsChanged(isTracking', sessionId')
                          THEN 0 ELSE quietMoves
    /\ sinceTrigger' = IF showAlert' /\ Len(alertTimers') <= Len(alertTimers)
                       THEN sinceTrigger ELSE 0
    /\ stopInvoked' = IF op = "stop" THEN TRUE
                      ELSE IF op = "start" THEN FALSE ELSE stopInvoked
    /\ activity' = IF op \in {"mousemove", "keypress"} THEN TRUE
                   ELSE IF op = "checkIdle" \/ SignalDepsChanged(isTracking', sessionId')
                        THEN FALSE ELSE activity
    /\ alertAge' = IF AlertShown(showAlert', driftAnalysis')
                      /\ AlertShown(showAlert, driftAnalysis)
                   THEN alertAge ELSE 0
    /\ sincePoll' = IF Polling(isTracking', sessionId')
                       /\ Polling(isTracking, sessionId)
                       /\ sessionId' = sessionId /\ op # "poll"
                    THEN sincePoll ELSE 0

\* ----------------------------------------------------------- lifecycle
\* The Start button (shown while not tracking): startSession().
StartSessionClick ==
    /\ ~isTracking
    /\ used.starts + used.stops < MaxPresses
    /\ used' = [used EXCEPT !.starts = @ + 1]
    /\ startReqs' = startReqs + 1
    /\ UNCHANGED <<ui, timers, metrics, driftAnalysis, alertTimers, nextId,
                   deleteReqs, polls, pollsIssued, eventReqs, sent, lastEvent>>
    /\ History("start")

\* Mutant of StartSessionSucceeded: the identifier is read from a field the
\* response does not have, so setSessionId receives undefined.
StartSessionSucceededNoId ==
    /\ startReqs > 0
    /\ startReqs' = startReqs - 1
    /\ nextId' = nextId + 1
    /\ Render(TRUE, NoSession, showAlert)
    /\ UNCHANGED <<metrics, driftAnalysis, alertTimers, deleteReqs, polls,
                   pollsIssued, eventReqs, sent, lastEvent, used>>
    /\ History("started")

\* startSession: the POST resolved.
StartSessionSucceeded ==
    /\ startReqs > 0
    /\ startReqs' = startReqs - 1
    /\ nextId' = nextId + 1
    /\ Render(TRUE, nextId, showAlert)
    /\ UNCHANGED <<metrics, driftAnalysis, alertTimers, deleteReqs, polls,
                   pollsIssued, eventReqs, sent, lastEvent, used>>
    /\ History("started")

\* Mutant of StartSessionFailed: setIsTracking(true) moved after the
\* try/catch, so that it also runs when the POST was rejected.
StartSessionFailedTracks ==
    /\ startReqs > 0
    /\ startReqs' = startReqs - 1
    /\ Render(TRUE, sessionId, showAlert)
    /\ UNCHANGED <<metrics, driftAnalysis, alertTimers, nextId, deleteReqs, polls,
                   pollsIssued, eventReqs, sent, lastEvent, used>>
    /\ History("startFailed")

\* startSession: the POST rejected (the catch block).
StartSessionFailed ==
    /\ startReqs > 0
    /\ startReqs' = startReqs - 1
    /\ UNCHANGED <<ui, timers, metrics, driftAnalysis, alertTimers, nextId,
                   deleteReqs, polls, pollsIssued, eventReqs, sent, lastEvent, used>>
    /\ History("startFailed")

\* The Stop button (shown while tracking): stopTracking() up to its await.
StopTrackingClick ==
    /\ isTracking
    /\ used.starts + used.stops < MaxPresses
    /\ used' = [used EXCEPT !.stops = @ + 1]
    /\ IF sessionId # NoSession
       THEN /\ deleteReqs' = Append(deleteReqs, sessionId)
            /\ UNCHANGED <<ui, timers>>
       ELSE /\ Render(FALSE, sessionId, showAlert)
            /\ UNCHANGED deleteReqs
    /\ UNCHANGED <<metrics, driftAnalysis, alertTimers, startReqs, nextId,
                   polls, pollsIssued, eventReqs, sent, lastEvent>>
    /\ History("stop")

\* Mutant of StopTrackingDone: setIsTracking(false) moved into the try
\* block, after the await, so that a rejected DELETE skips it.
StopTrackingDoneInTry(i, ok) ==
    /\ i \in 1..Len(deleteReqs)
    /\ deleteReqs' = RemoveAt(deleteReqs, i)
    /\ Render(IF ok THEN FALSE ELSE isTracking, sessionId, showAlert)
    /\ UNCHANGED <<metrics, driftAnalysis, alertTimers, startReqs, nextId,
                   polls, pollsIssued, eventReqs, sent, lastEvent, used>>
    /\ History(IF ok THEN "stopped" ELSE "stopFailed")

\* Mutant of StopTrackingDone: stopping also clears the pending dismissal
\* timeouts of the alert (a clearTimeout on stop).
StopTrackingDoneClearsAlert(i, ok) ==
    /\ i \in 1..Len(deleteReqs)
    /\ deleteReqs' = RemoveAt(deleteReqs, i)
    /\ Render(FALSE, sessionId, showAlert)
    /\ alertTimers' = <<>>
    /\ UNCHANGED <<metrics, driftAnalysis, startReqs, nextId,
                   polls, pollsIssued, eventReqs, sent, lastEvent, used>>
    /\ History(IF ok THEN "stopped" ELSE "stopFailed")

\* stopTracking after its await: the DELETE resolved (ok) or was rejected
\* and caught; either way setIsTracking(false) follows.
StopTrackingDone(i, ok) ==
    /\ i \in 1..Len(deleteReqs)
    /\ deleteReqs' = RemoveAt(deleteReqs, i)
    /\ Render(FALSE, sessionId, showAlert)
    /\ UNCHANGED <<metrics, driftAnalysis, alertTimers, startReqs, nextId,
                   polls, pollsIssued, eventReqs, sent, lastEvent, used>>
    /\ History(IF ok THEN "stopped" ELSE "stopFailed")

DeleteSettles == \E i \in 1..Len(deleteReqs), ok \in BOOLEAN : StopTrackingDone(i, ok)

\* ---------------------------------------------------------------- time
NoTimerDue ==
    /\ activeTimer # 0 /\ scrollTimeout # 0 /\ moveTimeout # 0
    /\ idleTimer # 0 /\ analysisTimer # 0
    /\ \A k \in 1..Len(alertTimers) : alertTimers[k] # 0

Run(t) == IF t = Off THEN Off ELSE t - TimeStep

RECURSIVE RunAll(_)
RunAll(s) == IF s = <<>> THEN <<>> ELSE <<Head(s) - TimeStep>> \o RunAll(Tail(s))

\* TimeStep ms pass with no handler running; `horizon` bounds the seconds
\* of tracked time explored.
Tick(horizon) ==
    /\ NoTimerDue
    /\ metrics.activeTime < horizon
    /\ activeTimer' = Run(activeTimer)
    /\ scrollTimeout' = Run(scrollTimeout)
    /\ moveTimeout' = Run(moveTimeout)
    /\ idleTimer' = Run(idleTimer)
    /\ analysisTimer' = Run(analysisTimer)
    /\ alertTimers' = RunAll(alertTimers)
    /\ idleElapsed' = IF isTracking
                      THEN Min(idleElapsed + TimeStep, IdleLimit * 1000 + TimeStep)
                      ELSE idleElapsed
    /\ sincePoll' = IF Polling(isTracking, sessionId)
                    THEN Min(sincePoll + TimeStep, AnalysisInterval + TimeStep)
                    ELSE 0
    /\ alertAge' = IF AlertShown(showAlert, driftAnalysis)
                   THEN Min(alertAge + TimeStep, AlertDuration + TimeStep)
                   ELSE 0
    /\ lastOp' = "tick"
    /\ sinceTrigger' = IF showAlert
                       THEN Min(sinceTrigger + TimeStep, AlertDuration + TimeStep)
                       ELSE 0
    /\ UNCHANGED <<ui, hidden, metrics, driftAnalysis, moveCount, net, used,
                   stopInvoked, activity, deleteAsked, sinceStart, quietMoves>>

\* The 1 s interval of the active-time effect.
ActiveTimeTick ==
    /\ activeTimer = 0
    /\ activeTimer' = ActiveInterval
    /\ metrics' = [metrics EXCEPT !.activeTime = @ + 1]
    /\ UNCHANGED <<ui, driftAnalysis, scrollTimeout, moveTimeout, moveCount,
                   idleTimer, idleElapsed, analysisTimer, alertTimers, net, used>>
    /\ History("activeTick")

\* -------------------------------------------------------------- scroll
\* Mutant of HandleScroll: logEvent is called from the raw scroll handler
\* as well as from the debounce's callback.
HandleScrollReports ==
    /\ isTracking
    /\ used.scrolls < MaxScrolls
    /\ used' = [used EXCEPT !.scrolls = @ + 1]
    /\ scrollTimeout' = ScrollDelay
    /\ LogEvent("scroll", 0)
    /\ UNCHANGED <<ui, metrics, driftAnalysis, activeTimer, moveTimeout, moveCount,
                   idleTimer, idleElapsed, analysisTimer, alertTimers, startReqs,
                   nextId, deleteReqs, polls, pollsIssued>>
    /\ History("scroll")

\* handleScroll: restart the debounce.
HandleScroll ==
    /\ isTracking
    /\ used.scrolls < MaxScrolls
    /\ used' = [used EXCEPT !.scrolls = @ + 1]
    /\ scrollTimeout' = ScrollDelay
    /\ UNCHANGED <<ui, metrics, driftAnalysis, activeTimer, moveTimeout, moveCount,
                   idleTimer, idleElapsed, analysisTimer, alertTimers, net>>
    /\ History("scroll")

\* Mutant of ScrollTimeoutFires: the snapshot is rebuilt from the metrics
\* the effect closed over when tracking began, the initial ones
\* (setMetrics({...metrics, scrolls: metrics.scrolls + 1})).
ScrollTimeoutFiresStale ==
    /\ scrollTimeout = 0
    /\ scrollTimeout' = Off
    /\ metrics' = [activeTime |-> 0, scrolls |-> 1, clicks |-> 0,
                   mouseMovements |-> 0, idleTime |-> 0, tabCount |-> 1]
    /\ LogEvent("scroll", 0)
    /\ UNCHANGED <<ui, driftAnalysis, activeTimer, moveTimeout, moveCount,
                   idleTimer, idleElapsed, analysisTimer, alertTimers, startReqs,
                   nextId, deleteReqs, polls, pollsIssued, used>>
    /\ History("scrollTimeout")

\* The debounce's callback.
ScrollTimeoutFires ==
    /\ scrollTimeout = 0
    /\ scrollTimeout' = Off
    /\ metrics' = [metrics EXCEPT !.scrolls = @ + 1]
    /\ LogEvent("scroll", 0)
    /\ UNCHANGED <<ui, driftAnalysis, activeTimer, moveTimeout, moveCount,
                   idleTimer, idleElapsed, analysisTimer, alertTimers, startReqs,
                   nextId, deleteReqs, polls, pollsIssued, used>>
    /\ History("scrollTimeout")

\* --------------------------------------------------------------- click
\* Mutant of HandleClick: the counter is set from the snapshot the effect
\* closed over (setMetrics({...metrics, clicks: metrics.clicks + 1})).
HandleClickStale ==
    /\ isTracking
    /\ used.clicks < MaxClicks
    /\ used' = [used EXCEPT !.clicks = @ + 1]
    /\ metrics' = [metrics EXCEPT !.clicks = 1]
    /\ LogEvent("click", 0)
    /\ UNCHANGED <<ui, driftAnalysis, timers, alertTimers, startReqs, nextId,
                   deleteReqs, polls, pollsIssued>>
    /\ History("click")

\* handleClick: count the click and report it.
HandleClick ==
    /\ isTracking
    /\ used.clicks < MaxClicks
    /\ used' = [used EXCEPT !.clicks = @ + 1]
    /\ metrics' = [metrics EXCEPT !.clicks = @ + 1]
    /\ LogEvent("click", 0)
    /\ UNCHANGED <<ui, driftAnalysis, timers, alertTimers, startReqs, nextId,
                   deleteReqs, polls, pollsIssued>>
    /\ History("click")

\* ---------------------------------------------------------- mouse move
\* Mutant of BurstCounts: the threshold itself counts as a burst.
BurstCountsAtThreshold(count) == count >= MoveThreshold

\* The burst test of the quiet-period callback.
BurstCounts(count) == count > MoveThreshold

\* A mousemove event: handleMouseMove and the idle effect's resetIdle.
HandleMouseMove ==
    /\ isTracking
    /\ used.moves < MaxMoves
    /\ used' = [used EXCEPT !.moves = @ + 1]
    /\ moveCount' = moveCount + 1
    /\ moveTimeout' = MoveDelay
    /\ idleElapsed' = 0
    /\ UNCHANGED <<ui, metrics, driftAnalysis, activeTimer, scrollTimeout,
                   idleTimer, analysisTimer, alertTimers, net>>
    /\ History("mousemove")

\* Mutant of MoveTimeoutFires: moveCount = 0 moved inside the threshold
\* branch, so a sub-threshold burst keeps its moves.
MoveTimeoutFiresKeeps ==
    /\ moveTimeout = 0
    /\ moveTimeout' = Off
    /\ IF BurstCounts(moveCount)
       THEN /\ metrics' = [metrics EXCEPT !.mouseMovements = @ + 1]
            /\ LogEvent("mousemove", moveCount)
            /\ moveCount' = 0
       ELSE UNCHANGED <<metrics, eventReqs, sent, lastEvent, moveCount>>
    /\ UNCHANGED <<ui, driftAnalysis, activeTimer, scrollTimeout, idleTimer,
                   idleElapsed, analysisTimer, alertTimers, startReqs, nextId,
                   deleteReqs, polls, pollsIssued, used>>
    /\ History("moveTimeout")

\* The quiet period's callback.
MoveTimeoutFires ==
    /\ moveTimeout = 0
    /\ moveTimeout' = Off
    /\ IF BurstCounts(moveCount)
       THEN /\ metrics' = [metrics EXCEPT !.mouseMovements = @ + 1]
            /\ LogEvent("mousemove", moveCount)
       ELSE UNCHANGED <<metrics, eventReqs, sent, lastEvent>>
    /\ moveCount' = 0
    /\ UNCHANGED <<ui, driftAnalysis, activeTimer, scrollTimeout, idleTimer,
                   idleElapsed, analysisTimer, alertTimers, startReqs, nextId,
                   deleteReqs, polls, pollsIssued, used>>
    /\ History("moveTimeout")

\* ---------------------------------------------------------------- idle
\* A keypress event: resetIdle.
HandleKeyPress ==
    /\ isTracking
    /\ used.keys < MaxKeys
    /\ used' = [used EXCEPT !.keys = @ + 1]
    /\ idleElapsed' = 0
    /\ UNCHANGED <<ui, metrics, driftAnalysis, activeTimer, scrollTimeout,
                   moveTimeout, moveCount, idleTimer, analysisTimer, alertTimers, net>>
    /\ History("keypress")

\* checkIdle's test: idleDuration = (Date.now() - idleStartTime) / 1000 > 5.
IsIdle(gap) == gap > IdleLimit * 1000

\* The 5 s interval's callback, reading the clock `late` ms after the
\* interval was due.
CheckIdle(late) ==
    /\ idleTimer = 0
    /\ idleTimer' = IdleInterval
    /\ IF IsIdle(idleElapsed + late)
       THEN /\ metrics' = [metrics EXCEPT !.idleTime = @ + IdleStep]
            /\ LogEvent("idle", IdleStep)
            /\ idleElapsed' = 0
       ELSE UNCHANGED <<metrics, eventReqs, sent, lastEvent, idleElapsed>>
    /\ UNCHANGED <<ui, driftAnalysis, activeTimer, scrollTimeout, moveTimeout,
                   moveCount, analysisTimer, alertTimers, startReqs, nextId,
                   deleteReqs, polls, pollsIssued, used>>
    /\ History("checkIdle")

\* ---------------------------------------------------------- visibility
\* The data of a 'visibility' report: { hidden: document.hidden }.
HiddenData(h) == IF h THEN 1 ELSE 0

\* Mutant of VisibilityChange: the handler also counts the change in the
\* snapshot's tabCount.
VisibilityChangeCounted ==
    /\ used.flips < MaxFlips
    /\ used' = [used EXCEPT !.flips = @ + 1]
    /\ IF isTracking
       THEN /\ LogEvent("visibility", HiddenData(~hidden))
            /\ metrics' = [metrics EXCEPT !.tabCount = @ + 1]
       ELSE UNCHANGED <<eventReqs, sent, lastEvent, metrics>>
    /\ UNCHANGED <<ui, driftAnalysis, timers, alertTimers, startReqs, nextId,
                   deleteReqs, polls, pollsIssued>>
    /\ History("visibility")

\* A visibilitychange event: document.hidden has flipped, and while
\* tracking handleVisibilityChange reports the new value.
VisibilityChange ==
    /\ used.flips < MaxFlips
    /\ used' = [used EXCEPT !.flips = @ + 1]
    /\ IF isTracking
       THEN LogEvent("visibility", HiddenData(~hidden))
       ELSE UNCHANGED <<eventReqs, sent, lastEvent>>
    /\ UNCHANGED <<ui, metrics, driftAnalysis, timers, alertTimers, startReqs,
                   nextId, deleteReqs, polls, pollsIssued>>
    /\ History("visibility")

\* ------------------------------------------------------------ analysis
\* The 10 s interval's callback: getDriftAnalysis() up to its await.  The
\* call keeps the sessionId and showAlert of the render that created it.
AnalysisTick ==
    /\ analysisTimer = 0
    /\ analysisTimer' = AnalysisInterval
    /\ IF sessionId = NoSession
       THEN UNCHANGED <<polls, pollsIssued>>
       ELSE /\ pollsIssued' = pollsIssued + 1
            /\ polls' = Append(polls, [session |-> sessionId, alertSeen |-> showAlert,
                                       poll |-> pollsIssued + 1])
    /\ UNCHANGED <<ui, metrics, driftAnalysis, activeTimer, scrollTimeout,
                   moveTimeout, moveCount, idleTimer, idleElapsed, alertTimers,
                   startReqs, nextId, deleteReqs, eventReqs, sent, lastEvent, used>>
    /\ History("poll")

\* The alert test of getDriftAnalysis, on the flag the call closed over.
RaisesAlert(drifting, alertSeen) == drifting /\ ~alertSeen

\* getDriftAnalysis after its await: the GET resolved with is_drifting.
AnalysisReceived(i, drifting) ==
    /\ i \in 1..Len(polls)
    /\ polls' = RemoveAt(polls, i)
    /\ driftAnalysis' = [is_drifting |-> drifting, poll |-> polls[i].poll,
                         session |-> polls[i].session]
    /\ IF RaisesAlert(drifting, polls[i].alertSeen)
       THEN /\ Render(isTracking, sessionId, TRUE)
            /\ alertTimers' = Append(alertTimers, AlertDuration)
       ELSE UNCHANGED <<ui, timers, alertTimers>>
    /\ UNCHANGED <<metrics, startReqs, nextId, deleteReqs, pollsIssued,
                   eventReqs, sent, lastEvent, used>>
    /\ History("analysis")

\* Mutant of AnalysisFailed: the catch block surfaces the failure through
\* the alert flag (setShowAlert(true)).
AnalysisFailedAlerts(i) ==
    /\ i \in 1..Len(polls)
    /\ polls' = RemoveAt(polls, i)
    /\ Render(isTracking, sessionId, TRUE)
    /\ UNCHANGED <<metrics, driftAnalysis, alertTimers, startReqs,
                   nextId, deleteReqs, pollsIssued, eventReqs, sent, lastEvent, used>>
    /\ History("analysisFailed")

\* getDriftAnalysis: the GET rejected (the catch block).
AnalysisFailed(i) ==
    /\ i \in 1..Len(polls)
    /\ polls' = RemoveAt(polls, i)
    /\ UNCHANGED <<ui, timers, metrics, driftAnalysis, alertTimers, startReqs,
                   nextId, deleteReqs, pollsIssued, eventReqs, sent, lastEvent, used>>
    /\ History("analysisFailed")

\* The dismissal timeout: setShowAlert(false).
AlertTimeoutFires ==
    /\ alertTimers # <<>>
    /\ Head(alertTimers) = 0
    /\ alertTimers' = Tail(alertTimers)
    /\ Render(isTracking, sessionId, FALSE)
    /\ UNCHANGED <<metrics, driftAnalysis, net, used>>
    /\ History("alertTimeout")

\* logEvent after its await: the POST settled either way.
EventSettles(ok) ==
    /\ eventReqs > 0
    /\ eventReqs' = eventReqs - 1
    /\ UNCHANGED <<ui, timers, metrics, driftAnalysis, alertTimers, startReqs,
                   nextId, deleteReqs, polls, pollsIssued, sent, lastEvent, used>>
    /\ History(IF ok THEN "eventSent" ELSE "eventFailed")

\* ------------------------------------------------------ specifications
Lifecycle ==
    \/ StartSessionClick
    \/ StartSessionSucceeded
    \/ StartSessionFailed
    \/ StopTrackingClick
    \/ DeleteSettles
    \/ ActiveTimeTick

Analysis ==
    \/ AnalysisTick
    \/ \E i \in 1..Len(polls), drifting \in BOOLEAN : AnalysisReceived(i, drifting)
    \/ \E i \in 1..Len(polls) : AnalysisFailed(i)
    \/ AlertTimeoutFires

\* The whole tracker.
Next ==
    \/ Lifecycle
    \/ HandleScroll
    \/ ScrollTimeoutFires
    \/ HandleClick
    \/ HandleMouseMove
    \/ MoveTimeoutFires
    \/ HandleKeyPress
    \/ \E late \in 0..MaxLate : CheckIdle(late)
    \/ VisibilityChange
    \/ Analysis
    \/ \E ok \in BOOLEAN : EventSettles(ok)
    \/ Tick(MaxActiveTime)

Spec == Init /\ [][Next]_vars

\* The tracker under scroll events only.
NextScroll ==
    \/ Lifecycle
    \/ HandleScroll
    \/ ScrollTimeoutFires
    \/ Tick(MaxScrollTime)

SpecScroll == Init /\ [][NextScroll]_vars

\* The tracker under clicks only.
NextClick ==
    \/ Lifecycle
    \/ HandleClick
    \/ \E ok \in BOOLEAN : EventSettles(ok)
    \/ Tick(MaxClickTime)

SpecClick == Init /\ [][NextClick]_vars

\* The tracker under mouse moves only.
NextMove ==
    \/ Lifecycle
    \/ HandleMouseMove
    \/ MoveTimeoutFires
    \/ Tick(MaxMoveTime)

SpecMove == Init /\ [][NextMove]_vars

\* One tracking lifetime under key presses, up to the idle samples.
NextIdle ==
    \/ StartSessionSucceeded
    \/ StartSessionFailed
    \/ ActiveTimeTick
    \/ HandleKeyPress
    \/ \E late \in 0..MaxLate : CheckIdle(late)
    \/ Tick(MaxIdleTime)

SpecIdle == Init /\ [][NextIdle]_vars

\* One tracking lifetime with no user events, up to the analysis polls.
NextAlert ==
    \/ StartSessionSucceeded
    \/ StartSessionFailed
    \/ ActiveTimeTick
    \/ \E late \in 0..MaxLate : CheckIdle(late)
    \/ Analysis
    \/ Tick(MaxAlertTime)

SpecAlert == Init /\ [][NextAlert]_vars

\* Starting and stopping, with every DELETE settling in the end.
NextLife ==
    \/ Lifecycle
    \/ Tick(MaxLifeTime)

SpecLife == Init /\ [][NextLife]_vars /\ WF_vars(DeleteSettles)

\* The tracker under tab visibility changes only.
NextVisible ==
    \/ Lifecycle
    \/ VisibilityChange
    \/ \E ok \in BOOLEAN : EventSettles(ok)
    \/ Tick(MaxVisibleTime)

SpecVisible == Init /\ [][NextVisible]_vars

\* One tracking lifetime under the signals that feed a counter through a
\* timer: scrolls, mouse moves, idle samples and the 1 s ticks (clicks, which
\* involve no timer, are explored by SpecClick).
NextMetrics ==
    \/ StartSessionSucceeded
    \/ StartSessionFailed
    \/ ActiveTimeTick
    \/ HandleScroll
    \/ ScrollTimeoutFires
    \/ HandleMouseMove
    \/ MoveTimeoutFires
    \/ \E late \in 0..MaxLate : CheckIdle(late)
    \/ Tick(MaxMetricsTime)

SpecMetrics == Init /\ [][NextMetrics]_vars

\* One tracking lifetime and its stop, up to the idle samples and the first
\* analysis poll, with every request free to fail.
NextFail ==
    \/ StartSessionSucceeded
    \/ StartSessionFailed
    \/ StopTrackingClick
    \/ DeleteSettles
    \/ ActiveTimeTick
    \/ \E ok \in BOOLEAN : EventSettles(ok)
    \/ \E late \in 0..MaxLate : CheckIdle(late)
    \/ Analysis
    \/ Tick(MaxFailTime)

SpecFail == Init /\ [][NextFail]_vars

\* --------------------------------------------------------------- claims
\* C1: while tracking stays active, a burst of scroll events (a pending
\* debounce) ends in exactly one increment of scrolls and exactly one
\* 'scroll' report: a pending burst is never dropped uncounted, and scrolls
\* only ever changes by the one increment that ends a burst.
C1_ScrollBurstCountedOnce ==
    [][ /\ (isTracking /\ isTracking' /\ scrollTimeout # Off)
           => \/ scrollTimeout' # Off
              \/ /\ metrics'.scrolls = metrics.scrolls + 1
                 /\ sent'["scroll"] = sent["scroll"] + 1
        /\ (metrics'.scrolls # metrics.scrolls \/ sent'["scroll"] # sent["scroll"])
           => /\ scrollTimeout # Off /\ scrollTimeout' = Off
              /\ metrics'.scrolls = metrics.scrolls + 1
              /\ sent'["scroll"] = sent["scroll"] + 1 ]_vars

C3_IdleSampleCounts ==
    [][ lastOp' = "checkIdle"
        => /\ ~activity
              => /\ metrics'.idleTime = metrics.idleTime + IdleStep
                 /\ sent'["idle"] = sent["idle"] + 1
           /\ (activity /\ idleElapsed < IdleInterval)
              => metrics'.idleTime = metrics.idleTime ]_vars

\* C4: a drifting analysis received while no alert is set raises the alert
\* with one dismissal timer, and the banner, once shown, disappears only
\* when it has been showing for exactly 5 seconds.
C4_AlertLastsFiveSeconds ==
    [][ /\ (lastOp' = "analysis" /\ driftAnalysis'.is_drifting /\ ~showAlert)
           => /\ AlertShown(showAlert', driftAnalysis')
              /\ Len(alertTimers') = Len(alertTimers) + 1
        /\ (AlertShown(showAlert, driftAnalysis)
              /\ ~AlertShown(showAlert', driftAnalysis'))
           => alertAge = AlertDuration ]_vars

\* C5: an analysis received while the alert is set neither sets it again
\* nor schedules a further dismissal timer.
C5_NoRetriggerWhileShown ==
    [][ (lastOp' = "analysis" /\ showAlert)
        => alertTimers' = alertTimers ]_vars

\* C6: after Stop is pressed (and until Start is pressed again) no metrics
\* counter, analysis or alert state changes and no request is issued.
C6_NothingAfterStop ==
    [][ (stopInvoked /\ stopInvoked')
        => /\ metrics' = metrics
           /\ driftAnalysis' = driftAnalysis
           /\ showAlert' = showAlert
           /\ sent' = sent
           /\ pollsIssued' = pollsIssued
           /\ startReqs' <= startReqs ]_vars

\* C7: a failed session start changes nothing: tracking, the session, the
\* timers, the counters and the requests issued stay as they were and no
\* new start request is made; and as long as no start has succeeded,
\* tracking is inactive with no timer running, no counter changed and no
\* report or analysis request made.
C7_FailedStartStaysInactive ==
    /\ [](nextId = 1
          => /\ ~isTracking /\ sessionId = NoSession
             /\ activeTimer = Off /\ scrollTimeout = Off /\ moveTimeout = Off
             /\ idleTimer = Off /\ analysisTimer = Off
             /\ metrics.activeTime = 0 /\ metrics.clicks = 0 /\ metrics.scrolls = 0
             /\ metrics.mouseMovements = 0 /\ metrics.idleTime = 0
             /\ eventReqs = 0 /\ pollsIssued = 0)
    /\ [][ lastOp' = "startFailed"
           => /\ startReqs' = startReqs - 1
              /\ UNCHANGED <<ui, timers, metrics, driftAnalysis, alertTimers,
                             deleteReqs, polls, pollsIssued, eventReqs, sent>> ]_vars

\* C7 witness: the mount's start and a later press of Start both failed.
C7_BothStartsFailed ==
    /\ lastOp = "startFailed"
    /\ used.starts = 1 /\ startReqs = 0 /\ nextId = 1
    /\ ~isTracking

\* C8: while tracking with a session, consecutive analysis requests (and
\* the start of polling and its first request) are never more than 10
\* seconds apart.
C8_PollEveryTenSeconds ==
    Polling(isTracking, sessionId) => sincePoll <= AnalysisInterval

\* C9: once Stop has been pressed while tracking (its DELETE is in flight),
\* tracking eventually becomes inactive, whatever the DELETE's outcome.
C9_StopEventuallyInactive ==
    (Len(deleteReqs) > 0) ~> ~isTracking

\* C9 witness: the DELETE was rejected and tracking is inactive.
C9_StoppedAfterFailedDelete ==
    lastOp = "stopFailed" /\ ~isTracking /\ deleteReqs = <<>>

\* C10: n clicks while tracking yield clicks + n and n 'click' reports.
C10_EveryClickCounted ==
    /\ metrics.clicks = used.clicks
    /\ sent["click"] = used.clicks

\* C10 witness: two clicks, both counted and both reported.
C10_TwoClicks ==
    lastOp = "click" /\ metrics.clicks >= 2 /\ sent["click"] >= 2

\* C11: a session identifier is obtained exactly once per start of
\* tracking: never are two session-start requests outstanding, and every
\* session the backend has created is the one the client holds or one whose
\* DELETE it has issued.
C11_OneSessionPerStart ==
    /\ startReqs <= 1
    /\ \A s \in 1..(nextId - 1) : s = sessionId \/ s \in deleteAsked

\* C12: every event report and every analysis request issued carries the
\* identifier of the most recently started session, and none is issued for
\* a session whose DELETE has already been issued.
C12_RequestsCarryLiveSession ==
    [][ /\ sent' # sent
           => /\ lastEvent'.session = nextId - 1
              /\ lastEvent'.session \notin deleteAsked
        /\ pollsIssued' # pollsIssued
           => /\ polls'[Len(polls')].session = nextId - 1
              /\ polls'[Len(polls')].session \notin deleteAsked ]_vars

C14_FailureChangesNothing ==
    [][ lastOp' \in {"eventFailed", "analysisFailed", "stopFailed"}
        => /\ UNCHANGED <<sessionId, isTracking, showAlert, metrics, driftAnalysis>>
           /\ sent' = sent /\ pollsIssued' = pollsIssued
           /\ startReqs' = startReqs /\ Len(deleteReqs') <= Len(deleteReqs) ]_vars

\* C14 as amended: a failed event report or analysis poll is not retried
\* and changes no state at all besides the request being gone (counters,
\* analysis, alert, timers; tracking continues); a failed session delete is
\* not retried and changes no counter, analysis, alert or session, and
\* tracking then ends as after a successful delete.
C14_FailureSwallowed ==
    [][ /\ lastOp' \in {"eventFailed", "analysisFailed"}
           => /\ UNCHANGED <<ui, timers, metrics, driftAnalysis, alertTimers>>
              /\ sent' = sent /\ pollsIssued' = pollsIssued
              /\ startReqs' = startReqs /\ deleteReqs' = deleteReqs
              /\ Len(polls') <= Len(polls) /\ eventReqs' <= eventReqs
        /\ lastOp' = "stopFailed"
           => /\ UNCHANGED <<sessionId, showAlert, metrics, driftAnalysis>>
              /\ ~isTracking'
              /\ sent' = sent /\ pollsIssued' = pollsIssued
              /\ startReqs' = startReqs /\ Len(deleteReqs') = Len(deleteReqs) - 1 ]_vars

\* C14 witness: the analysis poll failed after an idle sample was counted;
\* tracking is still active.
C14_FailedPollSwallowed ==
    /\ lastOp = "analysisFailed" /\ isTracking
    /\ metrics.idleTime > 0 /\ pollsIssued > 0 /\ driftAnalysis = NoAnalysis

\* C15: while tracking, a tab visibility change sends exactly one
\* 'visibility' report, carrying the new document.hidden, and leaves the
\* metrics snapshot, the drift analysis and the alert unchanged.
C15_VisibilityReportedOnly ==
    [][ (lastOp' = "visibility" /\ isTracking)
        => /\ hidden' # hidden
           /\ sent' = [sent EXCEPT !["visibility"] = @ + 1]
           /\ eventReqs' = eventReqs + 1
           /\ lastEvent' = [type |-> "visibility", session |-> sessionId,
                            data |-> HiddenData(hidden')]
           /\ UNCHANGED <<metrics, driftAnalysis, showAlert>> ]_vars

\* C15 witness: while tracking the tab was hidden and shown again, and the
\* second of the two reports says it is visible.
C15_HiddenAndShownAgain ==
    /\ lastOp = "visibility" /\ isTracking /\ ~hidden
    /\ sent["visibility"] = 2
    /\ lastEvent = [type |-> "visibility", session |-> sessionId, data |-> 0]

\* C16: while tracking is active, activeTime equals the number of 1 s ticks
\* since the most recent start of tracking.
C16_ActiveTimeSinceStart ==
    isTracking => metrics.activeTime = sinceStart

\* C17: when the mouse-move quiet period elapses the accumulator is reset
\* to 0 whether or not the threshold was met, and a burst that is reported
\* counts no move made before the previous quiet-period expiry.
C17_AccumulatorAlwaysReset ==
    [][ lastOp' = "moveTimeout"
        => /\ moveCount' = 0
           /\ sent'["mousemove"] # sent["mousemove"]
              => lastEvent'.data <= quietMoves ]_vars

\* C17 witness: in one tracking lifetime more than 5 moves were made in
\* sub-threshold bursts; the last quiet period has elapsed and none of
\* them was ever reported.
C17_SplitBurstNotReported ==
    /\ lastOp = "moveTimeout" /\ isTracking /\ moveCount = 0
    /\ nextId = 2 /\ used.starts = 0 /\ used.stops = 0
    /\ used.moves > MoveThreshold
    /\ metrics.mouseMovements = 0 /\ sent["mousemove"] = 0

\* C18: each received analysis replaces the stored one in arrival order,
\* and the stored result of a later poll is never overwritten by the
\* response of a poll issued earlier or issued for a previous session.
C18_LaterPollNotOverwritten ==
    [][ lastOp' = "analysis"
        => /\ driftAnalysis'.poll >= driftAnalysis.poll
           /\ driftAnalysis'.session = sessionId ]_vars

C20_TrackingHoldsSession ==
    /\ [](isTracking => sessionId # NoSession)
    /\ [][ /\ sent' # sent => lastEvent'.session # NoSession
           /\ pollsIssued' # pollsIssued
              => polls'[Len(polls')].session # NoSession ]_vars

\* C20 witness: tracking is active, and an event report and an analysis
\* request have been issued.
C20_TrackedAndPolled ==
    /\ isTracking /\ sessionId # NoSession
    /\ sent["idle"] > 0 /\ pollsIssued > 0

\* C21: the alert never sticks: whenever showAlert is set, the dismissal
\* timer of the last trigger is pending and due 5 seconds after that
\* trigger, so that showAlert is never set for more than 5 seconds after
\* its last trigger, whether tracking was stopped, polls failed or no
\* further response arrived.
C21_AlertNeverSticks ==
    showAlert
    => /\ alertTimers # <<>>
       /\ sinceTrigger <= AlertDuration
       /\ alertTimers[Len(alertTimers)] = AlertDuration - sinceTrigger

\* C21 witness: the alert was raised by a drifting analysis and, with
\* tracking stopped, its dismissal timer has fired and cleared it.
C21_DismissedAfterStop ==
    /\ lastOp = "alertTimeout" /\ ~showAlert /\ ~isTracking
    /\ alertTimers = <<>> /\ driftAnalysis.is_drifting

====
